---- MODULE Spec2Model ----
(***************************************************************************)
(* A model of the dense-matrix core of juanvia/ls (src/src/matrix/index.ts)*)
(* A Matrix is { rows, cols, data: number[] }.  The elements are JavaScript*)
(* numbers, that is IEEE-754 binary64 values: they are modelled bit for    *)
(* bit (sign, biased exponent, 52-bit fraction), with round-to-nearest-even*)
(* arithmetic, so that rounding, NaN and Infinity are those of the code.   *)
(***************************************************************************)
EXTENDS Integers, Sequences, FiniteSets, TLC

(***************************************************************************)
(* Part 1.  IEEE-754 binary64, the JavaScript number type.                 *)
(* A number is [s, e, h, l]: sign bit, 11-bit exponent field, and the      *)
(* 52-bit fraction field split in its high 24 and low 28 bits.             *)
(* Unsigned integers of up to 59 bits are pairs <<hi, lo>> = hi*2^28 + lo. *)
(***************************************************************************)
W == 2^28
H24 == 2^24

Max(a, b) == IF a >= b THEN a ELSE b
Min(a, b) == IF a <= b THEN a ELSE b

RECURSIVE BitLen(_)
BitLen(x) == IF x = 0 THEN 0 ELSE IF x >= 65536 THEN 16 + BitLen(x \div 65536)
             ELSE IF x >= 256 THEN 8 + BitLen(x \div 256) ELSE 1 + BitLen(x \div 2)

PNorm(h, l) == <<h + (l \div W), l % W>>
PAdd(a, b) == PNorm(a[1] + b[1], a[2] + b[2])
PSub(a, b) == IF a[2] >= b[2] THEN <<a[1] - b[1], a[2] - b[2]>>
              ELSE <<a[1] - b[1] - 1, a[2] + W - b[2]>>
PGe(a, b) == a[1] > b[1] \/ (a[1] = b[1] /\ a[2] >= b[2])
PBitLen(a) == IF a[1] > 0 THEN 28 + BitLen(a[1]) ELSE BitLen(a[2])
PShl(a, n) == IF n >= 28 THEN <<a[2] * 2^(n - 28), 0>>
              ELSE <<a[1] * 2^n + (a[2] \div 2^(28 - n)), (a[2] % 2^(28 - n)) * 2^n>>
PShr(a, n) == IF n >= 59 THEN <<0, 0>>
              ELSE IF n >= 28 THEN PNorm(0, a[1] \div 2^(n - 28))
              ELSE <<a[1] \div 2^n, (a[2] \div 2^n) + (a[1] % 2^n) * 2^(28 - n)>>
\* whether the low n bits of a are not all zero
PLowNonZero(a, n) == IF n >= 59 THEN a # <<0, 0>>
                     ELSE IF n >= 28 THEN a[2] # 0 \/ a[1] % 2^(n - 28) # 0
                     ELSE a[2] % 2^n # 0

NaN == [s |-> 0, e |-> 2047, h |-> 2^23, l |-> 0]
Inf(s) == [s |-> s, e |-> 2047, h |-> 0, l |-> 0]
Zero(s) == [s |-> s, e |-> 0, h |-> 0, l |-> 0]
IsNaN(x) == x.e = 2047 /\ (x.h # 0 \/ x.l # 0)
IsInf(x) == x.e = 2047 /\ x.h = 0 /\ x.l = 0
IsZero(x) == x.e = 0 /\ x.h = 0 /\ x.l = 0
IsFinite(x) == x.e # 2047

\* significand and exponent of a finite number: value = Sig * 2^Exp
Sig(x) == IF x.e = 0 THEN <<x.h, x.l>> ELSE <<x.h + H24, x.l>>
Exp(x) == IF x.e = 0 THEN -1074 ELSE x.e - 1075
\* the same with the significand shifted to exactly 53 bits (x nonzero)
NormSig(x) == PShl(Sig(x), 53 - PBitLen(Sig(x)))
NormExp(x) == Exp(x) - (53 - PBitLen(Sig(x)))

\* the number with sign s nearest to (T + sticky) * 2^e, ties to even;
\* sticky stands for a nonzero part below the last bit of T
Round(s, T, e, sticky) ==
  IF T = <<0, 0>> THEN Zero(s)
  ELSE
    LET L == PBitLen(T)
        sh == Max(L - 53, (-1074) - e)
    IN IF sh <= 0
       THEN LET M == PShl(T, -sh)
            IN IF L - sh = 53
               THEN IF e + sh + 1075 >= 2047 THEN Inf(s)
                    ELSE [s |-> s, e |-> e + sh + 1075, h |-> M[1] - H24, l |-> M[2]]
               ELSE [s |-> s, e |-> 0, h |-> M[1], l |-> M[2]]
       ELSE
         LET t1 == PShr(T, sh - 1)
             guard == t1[2] % 2 = 1
             kept == PShr(t1, 1)
             rest == PLowNonZero(T, sh - 1) \/ sticky
             up == guard /\ (rest \/ kept[2] % 2 = 1)
             M0 == IF up THEN PAdd(kept, <<0, 1>>) ELSE kept
             carry == M0[1] >= 2 * H24
             M == IF carry THEN <<H24, 0>> ELSE M0
             er == IF carry THEN e + sh + 1 ELSE e + sh
         IN IF M[1] >= H24
            THEN IF er + 1075 >= 2047 THEN Inf(s)
                 ELSE [s |-> s, e |-> er + 1075, h |-> M[1] - H24, l |-> M[2]]
            ELSE [s |-> s, e |-> 0, h |-> M[1], l |-> M[2]]

FNeg(x) == IF IsNaN(x) THEN NaN ELSE [x EXCEPT !.s = 1 - x.s]
FAbs(x) == IF IsNaN(x) THEN NaN ELSE [x EXCEPT !.s = 0]

\* a + b for finite nonzero a, b with Exp(a) >= Exp(b)
AddOrdered(a, b) ==
  LET d == Exp(a) - Exp(b)
      A3 == PShl(Sig(a), 3)
      B0 == PShl(Sig(b), 3)
      Bs == PShr(B0, d)
      B3 == IF PLowNonZero(B0, d) /\ Bs[2] % 2 = 0 THEN <<Bs[1], Bs[2] + 1>> ELSE Bs
  IN IF a.s = b.s THEN Round(a.s, PAdd(A3, B3), Exp(a) - 3, FALSE)
     ELSE IF A3 = B3 THEN Zero(0)
     ELSE IF PGe(A3, B3) THEN Round(a.s, PSub(A3, B3), Exp(a) - 3, FALSE)
     ELSE Round(b.s, PSub(B3, A3), Exp(a) - 3, FALSE)

FAdd(a, b) ==
  IF IsNaN(a) \/ IsNaN(b) THEN NaN
  ELSE IF IsInf(a) THEN (IF IsInf(b) /\ a.s # b.s THEN NaN ELSE a)
  ELSE IF IsInf(b) THEN b
  ELSE IF IsZero(a) THEN (IF IsZero(b) THEN Zero(IF a.s = 1 /\ b.s = 1 THEN 1 ELSE 0) ELSE b)
  ELSE IF IsZero(b) THEN a
  ELSE IF Exp(a) >= Exp(b) THEN AddOrdered(a, b) ELSE AddOrdered(b, a)

FSub(a, b) == FAdd(a, FNeg(b))

\* the product of two 53-bit significands, cut to its top bits:
\* <<T, sticky>> with T = floor(P / 2^50) and sticky = (P % 2^50 # 0)
MulSig(A, B) ==
  LET K == 16384
      a0 == A[2] % K   a1 == A[2] \div K   a2 == A[1] % K   a3 == A[1] \div K
      b0 == B[2] % K   b1 == B[2] \div K   b2 == B[1] % K   b3 == B[1] \div K
      c0 == a0 * b0
      c1 == a0 * b1 + a1 * b0 + (c0 \div K)
      c2 == a0 * b2 + a1 * b1 + a2 * b0 + (c1 \div K)
      c3 == a0 * b3 + a1 * b2 + a2 * b1 + a3 * b0 + (c2 \div K)
      c4 == a1 * b3 + a2 * b2 + a3 * b1 + (c3 \div K)
      c5 == a2 * b3 + a3 * b2 + (c4 \div K)
      c6 == a3 * b3 + (c5 \div K)
      p0 == c0 % K   p1 == c1 % K   p2 == c2 % K   p3 == c3 % K
      p4 == c4 % K   p5 == c5 % K   p6 == c6 % K   p7 == c6 \div K
      lo == (p3 \div 256) + p4 * 64 + (p5 % 256) * 1048576
      hi == (p5 \div 256) + p6 * 64 + p7 * 1048576
  IN <<(<<hi, lo>>), p0 # 0 \/ p1 # 0 \/ p2 # 0 \/ p3 % 256 # 0>>

FMul(a, b) ==
  LET s == IF a.s = b.s THEN 0 ELSE 1
  IN IF IsNaN(a) \/ IsNaN(b) THEN NaN
     ELSE IF IsInf(a) \/ IsInf(b)
          THEN (IF IsZero(a) \/ IsZero(b) THEN NaN ELSE Inf(s))
     ELSE IF IsZero(a) \/ IsZero(b) THEN Zero(s)
     ELSE LET P == MulSig(NormSig(a), NormSig(b))
          IN Round(s, P[1], NormExp(a) + NormExp(b) + 50, P[2])

\* long division, one quotient bit a step, on st = <<rest, quotient>>
DivStep(st, D) ==
  IF PGe(st[1], D) THEN <<PShl(PSub(st[1], D), 1), PAdd(PShl(st[2], 1), <<0, 1>>)>>
  ELSE <<PShl(st[1], 1), PShl(st[2], 1)>>
\* 4n steps
RECURSIVE DivLoop(_, _, _)
DivLoop(st, D, n) ==
  IF n = 0 \/ st[2][1] < 0 THEN st
  ELSE DivLoop(DivStep(DivStep(DivStep(DivStep(st, D), D), D), D), D, n - 1)

FDiv(a, b) ==
  LET s == IF a.s = b.s THEN 0 ELSE 1
  IN IF IsNaN(a) \/ IsNaN(b) THEN NaN
     ELSE IF IsInf(a) THEN (IF IsInf(b) THEN NaN ELSE Inf(s))
     ELSE IF IsInf(b) THEN Zero(s)
     ELSE IF IsZero(b) THEN (IF IsZero(a) THEN NaN ELSE Inf(s))
     ELSE IF IsZero(a) THEN Zero(s)
     ELSE LET qr0 == DivLoop(<<NormSig(a), <<0, 0>>>>, NormSig(b), 14)
          IN Round(s, qr0[2], NormExp(a) - NormExp(b) - 55, qr0[1] # <<0, 0>>)

\* the two bits 2i+1, 2i of the pair M
BitPair(M, i) == IF i >= 14 THEN (M[1] \div 4^(i - 14)) % 4 ELSE (M[2] \div 4^i) % 4

\* square root, one bit of the root a step, on st = <<rest, root>>; i counts
\* the bit pairs still to bring down: those of M first (i >= 28), then 28
\* pairs of zeros
SqrtStep(M, st, i) ==
  LET r4 == PAdd(PShl(st[1], 2), <<0, IF i >= 28 THEN BitPair(M, i - 28) ELSE 0>>)
      trial == PAdd(PShl(st[2], 2), <<0, 1>>)
  IN IF PGe(r4, trial) THEN <<PSub(r4, trial), PAdd(PShl(st[2], 1), <<0, 1>>)>>
     ELSE <<r4, PShl(st[2], 1)>>
\* the steps i, i-1, ..., 0, five at a time
RECURSIVE SqrtLoop(_, _, _)
SqrtLoop(M, st, i) ==
  IF i < 0 \/ st[2][1] < 0 THEN st
  ELSE SqrtLoop(M, SqrtStep(M, SqrtStep(M, SqrtStep(M, SqrtStep(M, SqrtStep(M, st, i),
                   i - 1), i - 2), i - 3), i - 4), i - 5)

\* Math.sqrt
FSqrt(a) ==
  IF IsNaN(a) THEN NaN
  ELSE IF IsZero(a) THEN a
  ELSE IF a.s = 1 THEN NaN
  ELSE IF IsInf(a) THEN a
  ELSE LET odd == NormExp(a) % 2 # 0
           M == IF odd THEN PShl(NormSig(a), 1) ELSE NormSig(a)
           e2 == IF odd THEN NormExp(a) - 1 ELSE NormExp(a)
           rr == SqrtLoop(M, <<(<<0, 0>>), <<0, 0>>>>, 54)
       IN Round(0, rr[2], (e2 \div 2) - 28, rr[1] # <<0, 0>>)

\* a < b and a <= b on numbers (false when either is NaN)
MagLt(a, b) == a.e < b.e \/ (a.e = b.e /\ (a.h < b.h \/ (a.h = b.h /\ a.l < b.l)))
FLt(a, b) ==
  IF IsNaN(a) \/ IsNaN(b) THEN FALSE
  ELSE IF IsZero(a) /\ IsZero(b) THEN FALSE
  ELSE IF a.s # b.s THEN a.s = 1
  ELSE IF a.s = 0 THEN MagLt(a, b) ELSE MagLt(b, a)
FEq(a, b) == ~IsNaN(a) /\ ~IsNaN(b) /\ (a = b \/ (IsZero(a) /\ IsZero(b)))
FLe(a, b) == FLt(a, b) \/ FEq(a, b)

\* the number that is the integer n, |n| < 2^28
FromInt(n) ==
  IF n = 0 THEN Zero(0)
  ELSE LET m == IF n < 0 THEN -n ELSE n
           L == BitLen(m)
           M == PShl(<<0, m>>, 53 - L)
       IN [s |-> IF n < 0 THEN 1 ELSE 0, e |-> 1022 + L, h |-> M[1] - H24, l |-> M[2]]

\* number literals of the source
One == FromInt(1)
MinusOne == FromInt(-1)
\* 1e-10, the nearest number to 1/10^10 (index.ts line 423)
Tolerance == FDiv(One, FMul(FromInt(100000), FromInt(100000)))

(***************************************************************************)
(* Part 2.  JavaScript values, arrays, results.                            *)
(* An array element is a number, the value undefined, or a hole (an index  *)
(* of a `new Array(n)` never written).  A call either returns a value or   *)
(* throws.                                                                 *)
(***************************************************************************)
Undefined == [s |-> 0, e |-> -2, h |-> 0, l |-> 0]
Hole == [s |-> 0, e |-> -1, h |-> 0, l |-> 0]
IsNumber(v) == v.e >= 0
\* ToNumber: undefined becomes NaN
Num(v) == IF v.e < 0 THEN NaN ELSE v
\* d[k] for a JavaScript index k (from 0): undefined out of range or at a hole
Read(d, k) == IF k >= 0 /\ k < Len(d) /\ d[k + 1] # Hole THEN d[k + 1] ELSE Undefined

Ok(v) == [t |-> "ok", v |-> v]
Throw(name, msg) == [t |-> "throw", v |-> <<name, msg>>]

\* new Array<number>(n): n holes; a RangeError when n is no array length
NewArray(n) == IF n < 0 THEN Throw("RangeError", "Invalid array length")
               ELSE Ok([k \in 1..n |-> Hole])

\* Array.prototype.slice(start, end)
SliceIndex(x, len) == IF x < 0 THEN Max(len + x, 0) ELSE Min(x, len)
Slice(d, start, end) ==
  LET from == SliceIndex(start, Len(d))
      to == SliceIndex(end, Len(d))
  IN [k \in 1..(to - from) |-> d[from + k]]

(***************************************************************************)
(* Part 3.  The matrix operations of src/src/matrix/index.ts.              *)
(* A Matrix is [rows, cols, data].  An optional parameter is <<>> when     *)
(* omitted and <<value>> when given.                                       *)
(***************************************************************************)
Matrix(rows, cols, data) == [rows |-> rows, cols |-> cols, data |-> data]

\* makeMatrix without the test of the length of data
makeMatrixUnchecked(rows, cols, data) ==
  IF data # <<>> THEN Ok(Matrix(rows, cols, data[1]))
  ELSE LET arr == NewArray(rows * cols)
       IN IF arr.t = "throw" THEN arr ELSE Ok(Matrix(rows, cols, arr.v))

makeMatrix(rows, cols, data) ==
  IF data # <<>> /\ Len(data[1]) # rows * cols
  THEN Throw("Error", "The matrix must have rows*cols data elements")
  ELSE IF data # <<>> THEN Ok(Matrix(rows, cols, data[1]))
  ELSE LET arr == NewArray(rows * cols)
       IN IF arr.t = "throw" THEN arr ELSE Ok(Matrix(rows, cols, arr.v))

makeRowVector(size, data) == makeMatrix(1, size, data)
makeColumnVector(size, data) == makeMatrix(size, 1, data)
makeEmptyMatrix == makeMatrix(0, 0, <<>>)

\* { ...A, data: [...A.data] }: the spread reads holes as undefined
clone(A) == Matrix(A.rows, A.cols,
                   [k \in 1..Len(A.data) |-> Read(A.data, k - 1)])

\* row accepting the index i == rows
rowUpTo(i, M) ==
  IF i < 0 \/ i > M.rows THEN Throw("RangeError", "Paramenter i must fall between 0 and rows-1")
  ELSE Ok(Matrix(1, M.cols, Slice(M.data, i * M.cols, (i + 1) * M.cols)))

row(i, M) ==
  IF i < 0 \/ i >= M.rows THEN Throw("RangeError", "Paramenter i must fall between 0 and rows-1")
  ELSE Ok(Matrix(1, M.cols, Slice(M.data, i * M.cols, (i + 1) * M.cols)))

column(j, M) ==
  IF j < 0 \/ j >= M.cols THEN Throw("RangeError", "Paramenter i must fall between 0 and cols-1")
  ELSE Ok(Matrix(M.rows, 1, [i \in 1..M.rows |-> Read(M.data, (i - 1) * M.cols + j)]))

\* appendRow taking cols from A alone
appendRowKeepCols(A, r) == Matrix(A.rows + 1, A.cols, A.data \o r.data)

\* no validation of the row (index.ts line 105: "TODO: Validate input")
appendRow(A, r) ==
  Matrix(A.rows + 1, IF A.cols # 0 THEN A.cols ELSE Len(r.data), A.data \o r.data)

smul(scalar, M) ==
  Matrix(M.rows, M.cols,
         [k \in 1..Len(M.data) |->
            IF M.data[k] = Hole THEN Hole ELSE FMul(Num(M.data[k]), scalar)])

sum(A, B) ==
  IF A.rows # B.rows \/ A.cols # B.cols \/ Len(A.data) # Len(B.data)
  THEN Throw("Error", "Cannot sum")
  ELSE LET m == A.rows
           n == A.cols
           S == makeMatrix(m, n, <<>>)
       IN IF S.t = "throw" THEN S
          ELSE Ok(Matrix(m, n,
                 [k \in 1..Len(S.v.data) |->
                    IF m > 0 /\ n > 0
                    THEN FAdd(Num(Read(A.data, k - 1)), Num(Read(B.data, k - 1)))
                    ELSE Hole]))

\* sub without the change of sign of B
subUnsigned(A, B) == sum(A, B)

sub(A, B) == sum(A, smul(MinusOne, B))

\* the loop of mul stopping one k early
RECURSIVE MulSumShort(_, _, _, _, _, _)
MulSumShort(A, B, i, j, k, acc) ==
  IF k >= A.cols - 1 \/ acc.e < 0 THEN acc
  ELSE MulSumShort(A, B, i, j, k + 1,
                   FAdd(acc, FMul(Num(Read(A.data, i * A.cols + k)),
                                  Num(Read(B.data, k * B.cols + j)))))

\* C.data[i*C.cols+j] = 0, then += A(i,k)*B(k,j) for k = 0 .. A.cols-1
RECURSIVE MulSum(_, _, _, _, _, _)
MulSum(A, B, i, j, k, acc) ==
  IF k >= A.cols \/ acc.e < 0 THEN acc
  ELSE MulSum(A, B, i, j, k + 1,
              FAdd(acc, FMul(Num(Read(A.data, i * A.cols + k)),
                             Num(Read(B.data, k * B.cols + j)))))

mul(A, B) ==
  IF A.cols # B.rows THEN Throw("Error", "Cannot multiply")
  ELSE LET C == makeMatrix(A.rows, B.cols, <<>>)
       IN IF C.t = "throw" THEN C
          ELSE Ok(Matrix(A.rows, B.cols,
                 [p \in 1..Len(C.v.data) |->
                    IF A.rows > 0 /\ B.cols > 0
                    THEN MulSum(A, B, (p - 1) \div B.cols, (p - 1) % B.cols, 0, Zero(0))
                    ELSE Hole]))

tr(A) ==
  LET T == makeMatrix(A.cols, A.rows, <<>>)
  IN IF T.t = "throw" THEN T
     ELSE Ok(Matrix(A.cols, A.rows,
            [p \in 1..Len(T.v.data) |->
               IF A.rows > 0 /\ A.cols > 0
               THEN Read(A.data, ((p - 1) % A.rows) * A.cols + ((p - 1) \div A.rows))
               ELSE Hole]))

\* sum += data[k]*data[k] over the rows*cols elements, in index order
RECURSIVE SquareSum(_, _, _, _)
SquareSum(d, k, n, acc) ==
  IF k >= n \/ acc.e < 0 THEN acc
  ELSE SquareSum(d, k + 1, n, FAdd(acc, FMul(Num(Read(d, k)), Num(Read(d, k)))))

norm(A) ==
  FSqrt(SquareSum(A.data, 0, IF A.rows > 0 /\ A.cols > 0 THEN A.rows * A.cols ELSE 0,
                  Zero(0)))

\* the functions given to map in this model: value => result
Apply(f, v) == CASE f = "negate" -> FNeg(Num(v))
                 [] f = "double" -> FMul(Num(v), FromInt(2))
                 [] OTHER -> Num(v)

\* data.map(f): holes stay holes
map(f, M) ==
  Matrix(M.rows, M.cols,
         [k \in 1..Len(M.data) |-> IF M.data[k] = Hole THEN Hole ELSE Apply(f, M.data[k])])

RECURSIVE DotSum(_, _, _, _)
DotSum(x, y, i, acc) ==
  IF i >= Len(x) \/ acc.e < 0 THEN acc
  ELSE DotSum(x, y, i + 1, FAdd(acc, FMul(Num(Read(x, i)), Num(Read(y, i)))))

\* dot with its two tests in the other order
dotLengthFirst(x, y) ==
  IF Len(x.data) # Len(y.data) THEN Throw("Error", "The vectors differ in length")
  ELSE IF (x.cols # 1 /\ x.rows # 1) \/ (y.cols # 1 /\ y.rows # 1)
  THEN Throw("Error", "Only vectors can be used in scalar product")
  ELSE Ok(DotSum(x.data, y.data, 0, Zero(0)))

dot(x, y) ==
  IF (x.cols # 1 /\ x.rows # 1) \/ (y.cols # 1 /\ y.rows # 1)
  THEN Throw("Error", "Only vectors can be used in scalar product")
  ELSE IF Len(x.data) # Len(y.data) THEN Throw("Error", "The vectors differ in length")
  ELSE Ok(DotSum(x.data, y.data, 0, Zero(0)))

get(A, i, j) ==
  IF j = <<>>
  THEN IF i < 0 \/ i >= A.rows * A.cols
       THEN Throw("RangeError", "Index i is out of bounds")
       ELSE Ok(Read(A.data, i))
  ELSE IF i < 0 \/ i >= A.rows THEN Throw("RangeError", "Index i is out of bounds")
  ELSE IF j[1] < 0 \/ j[1] >= A.cols THEN Throw("RangeError", "Index j is out of bounds")
  ELSE Ok(Read(A.data, i * A.cols + j[1]))

\* the rows of A, each the array of its A.cols elements
toArray(A) ==
  [i \in 1..A.rows |-> [j \in 1..A.cols |-> Read(A.data, (i - 1) * A.cols + j - 1)]]

\* a call on the result r of another call: the throw of r goes through
trOf(r) == IF r.t = "throw" THEN r ELSE tr(r.v)
mulOf(r, B) == IF r.t = "throw" THEN r ELSE mul(r.v, B)

\* q = sub(q, smul(dot(qj, ai), qj)), d being the result of dot(qj, ai)
Orthogonalize(q, qj, d) == IF d.t = "throw" THEN d ELSE sub(q, smul(d.v, qj))

\* the inner loop of gramSchmidt from j on: "next" with the orthogonalized q,
\* "return" when q is found dependent (the premature return Q), or a throw
RECURSIVE GramSchmidtInner(_, _, _, _)
\* the test of the norm of the new q, and the next j
GramSchmidtInnerTest(Q, ai, q, j) ==
  IF q.t = "throw" THEN q
  ELSE IF FLe(norm(q.v), Tolerance) THEN [t |-> "return", v |-> Q]
  ELSE GramSchmidtInner(Q, ai, q.v, j + 1)

\* the body of the inner loop, qj being the result of row(j, Q)
GramSchmidtInnerBody(Q, ai, q, j, qj) ==
  IF qj.t = "throw" THEN qj
  ELSE GramSchmidtInnerTest(Q, ai, Orthogonalize(q, qj.v, dot(qj.v, ai)), j)

GramSchmidtInner(Q, ai, q, j) ==
  IF j >= Q.rows THEN [t |-> "next", v |-> q]
  ELSE GramSchmidtInnerBody(Q, ai, q, j, row(j, Q))

\* the outer loop of gramSchmidt from row i on
RECURSIVE GramSchmidtOuter(_, _, _)
\* after the inner loop ended with r: the premature return, or the append of
\* the normalized q and the next i
GramSchmidtAppend(A, Q, i, r) ==
  IF r.t = "throw" THEN r
  ELSE IF r.t = "return" THEN Ok(r.v)
  ELSE GramSchmidtOuter(A, appendRow(Q, smul(FDiv(One, norm(r.v)), r.v)), i + 1)

\* the body of the outer loop, ai being the result of row(i, A)
GramSchmidtOuterBody(A, Q, i, ai) ==
  IF ai.t = "throw" THEN ai
  ELSE GramSchmidtAppend(A, Q, i, GramSchmidtInner(Q, ai.v, clone(ai.v), 0))

GramSchmidtOuter(A, Q, i) ==
  IF i >= A.rows THEN Ok(Q)
  ELSE GramSchmidtOuterBody(A, Q, i, row(i, A))

gramSchmidt(A) == GramSchmidtOuter(A, makeEmptyMatrix.v, 0)
gramSchmidtOf(r) == IF r.t = "throw" THEN r ELSE gramSchmidt(r.v)

\* return [Q, R], R being the result of mul(tr(Q), A)
QrPair(Q, R) == IF R.t = "throw" THEN R ELSE Ok(<<Q, R.v>>)
\* const R = mul(tr(Q), A), Q being the result of tr(gramSchmidt(tr(A)))
QrR(A, Q) == IF Q.t = "throw" THEN Q ELSE QrPair(Q.v, mulOf(tr(Q.v), A))

\* returns the pair <<Q, R>>
qr(A) == QrR(A, trOf(gramSchmidtOf(tr(A))))

\* the term added to x[i] where it is to be subtracted
AddTerm(xi, g, xj) ==
  IF g.t = "throw" THEN g ELSE Ok(FAdd(Num(xi), FMul(Num(g.v), Num(xj))))

\* x[i] -= get(R, i, j) * x[j], g being the result of get(R, i, j)
SubtractTerm(xi, g, xj) ==
  IF g.t = "throw" THEN g ELSE Ok(FSub(Num(xi), FMul(Num(g.v), Num(xj))))

\* the loop over j = i+1 .. R.cols-1; x is the array so far, xi the result x[i]
RECURSIVE BackSubstitutionRow(_, _, _, _, _)
BackSubstitutionRow(R, x, i, j, xi) ==
  IF j >= R.cols \/ xi.t = "throw" THEN xi
  ELSE BackSubstitutionRow(R, x, i, j + 1,
                           SubtractTerm(xi.v, get(R, i, <<j>>), Read(x, j)))

\* the division with a test of the divisor
DivideChecked(xi, rii) ==
  IF xi.t = "throw" THEN xi
  ELSE IF rii.t = "throw" THEN rii
  ELSE IF IsZero(Num(rii.v)) THEN Throw("Error", "The matrix is singular")
  ELSE Ok(FDiv(Num(xi.v), Num(rii.v)))

\* x[i] /= get(R, i, i), rii being the result of get(R, i, i)
Divide(xi, rii) ==
  IF xi.t = "throw" THEN xi
  ELSE IF rii.t = "throw" THEN rii
  ELSE Ok(FDiv(Num(xi.v), Num(rii.v)))

\* the array x after x[i] = v: it grows to i + 1 elements, holes between
StoreAt(x, i, v) ==
  [k \in 1..Max(Len(x), i + 1) |->
     IF k = i + 1 THEN v ELSE IF k <= Len(x) THEN x[k] ELSE Hole]

\* the loop over the equations, from equation eq on; x grows from its end
RECURSIVE BackSubstitutionLoop(_, _, _, _)
BackSubstitutionStore(R, b, x, eq, xi) ==
  IF xi.t = "throw" THEN xi
  ELSE BackSubstitutionLoop(R, b, StoreAt(x, R.rows - eq - 1, xi.v), eq + 1)

BackSubstitutionLoop(R, b, x, eq) ==
  IF eq >= R.rows THEN Ok(x)
  ELSE BackSubstitutionStore(R, b, x, eq,
         Divide(BackSubstitutionRow(R, x, R.rows - eq - 1, R.rows - eq,
                                    get(b, R.rows - eq - 1, <<>>)),
                get(R, R.rows - eq - 1, <<R.rows - eq - 1>>)))

\* return makeColumnVector(R.rows, x), x being the result of the loop
BackSubstitutionVector(R, x) ==
  IF x.t = "throw" THEN x ELSE makeColumnVector(R.rows, <<x.v>>)

backSubstitution(R, b) == BackSubstitutionVector(R, BackSubstitutionLoop(R, b, <<>>, 0))
backSubstitutionOf(R, r) == IF r.t = "throw" THEN r ELSE backSubstitution(R, r.v)

\* backSubstitution(R, mul(tr(Q), b)), QR being the result of qr(A)
SolveQR(QR, b) ==
  IF QR.t = "throw" THEN QR
  ELSE backSubstitutionOf(QR.v[2], mulOf(tr(QR.v[1]), b))

solve(A, b) == SolveQR(qr(A), b)

(***************************************************************************)
(* Part 4.  The caller.  The library keeps no state of its own: the state  *)
(* is the caller's, two matrices A and B it holds, the operation it called *)
(* last with the other arguments it gave, and what the call returned or    *)
(* threw.  The arrays are held by value in A, B and ret, but for Part 10,   *)
(* where they are objects of heap and the data of a matrix is a reference. *)
(***************************************************************************)
VARIABLES A, B, op, args, ret, heap
vars == <<A, B, op, args, ret, heap>>

\* bounds of the inputs
MaxDim == 2
NumPatterns == 2
MaxRows == 3
MaxN == 3

Half == FDiv(One, FromInt(2))
Tenth == FDiv(One, FromInt(10))
\* the numbers the input data are made of
Values == <<One, FromInt(2), FromInt(-3), Half, Zero(0), Tenth, MinusOne>>
\* n numbers: the pattern p of the numbers of vals
DataOf(vals, p, n) == [k \in 1..n |-> vals[(((k - 1) * p + p - 1) % Len(vals)) + 1]]
Data(p, n) == DataOf(Values, p, n)

\* the well-formed matrices of up to MaxDim rows and columns
SmallMatrices ==
  {Matrix(r, c, Data(p, r * c)) : r \in 0..MaxDim, c \in 0..MaxDim, p \in 1..NumPatterns}

Indexes == (-1)..MaxDim
Scalars == {FromInt(2), MinusOne, Zero(0), Tenth}
Functions == {"negate", "double"}

NoCall == [t |-> "none", v |-> <<>>]

Idle(M1, M2) ==
  A = M1 /\ B = M2 /\ op = "none" /\ args = <<>> /\ ret = NoCall /\ heap = <<>>

Init == \E M1 \in SmallMatrices, M2 \in SmallMatrices : Idle(M1, M2)

\* the caller calls operation name with the other arguments a, and gets r
Call(name, a, r) ==
  /\ op = "none"
  /\ op' = name
  /\ args' = a
  /\ ret' = r
  /\ UNCHANGED <<A, B, heap>>

\* data is omitted, or is the array of A (a reshape of A)
CallMakeMatrix ==
  \E rows \in Indexes, cols \in Indexes, data \in {<<>>, <<A.data>>} :
     Call("makeMatrix", <<rows, cols, data>>, makeMatrix(rows, cols, data))
CallMakeEmptyMatrix == Call("makeEmptyMatrix", <<>>, makeEmptyMatrix)
CallClone == Call("clone", <<>>, Ok(clone(A)))
CallRow == \E i \in Indexes : Call("row", <<i>>, row(i, A))
CallColumn == \E j \in Indexes : Call("column", <<j>>, column(j, A))
CallAppendRow == Call("appendRow", <<>>, Ok(appendRow(A, B)))
CallSum == Call("sum", <<>>, sum(A, B))
CallSub == Call("sub", <<>>, sub(A, B))
CallMul == Call("mul", <<>>, mul(A, B))
CallTr == Call("tr", <<>>, tr(A))
CallNorm == Call("norm", <<>>, Ok(norm(A)))
CallMap == \E f \in Functions : Call("map", <<f>>, Ok(map(f, A)))
CallDot == Call("dot", <<>>, dot(A, B))
CallGet ==
  \E i \in Indexes, j \in {<<>>} \cup {<<k>> : k \in Indexes} :
     Call("get", <<i, j>>, get(A, i, j))
CallSmul == \E scalar \in Scalars : Call("smul", <<scalar>>, Ok(smul(scalar, A)))
CallGramSchmidt == Call("gramSchmidt", <<>>, gramSchmidt(A))
CallQr == Call("qr", <<>>, qr(A))
CallBackSubstitution == Call("backSubstitution", <<>>, backSubstitution(A, B))
CallSolve == Call("solve", <<>>, solve(A, B))

\* the caller drops the result and is ready for its next call
Discard ==
  /\ op # "none"
  /\ op' = "none"
  /\ args' = <<>>
  /\ ret' = NoCall
  /\ UNCHANGED <<A, B, heap>>

Next ==
  \/ CallMakeMatrix
  \/ CallMakeEmptyMatrix
  \/ CallClone
  \/ CallRow
  \/ CallColumn
  \/ CallAppendRow
  \/ CallSum
  \/ CallSub
  \/ CallMul
  \/ CallTr
  \/ CallNorm
  \/ CallMap
  \/ CallDot
  \/ CallGet
  \/ CallSmul
  \/ CallGramSchmidt
  \/ CallQr
  \/ CallBackSubstitution
  \/ CallSolve
  \/ Discard

Spec == Init /\ [][Next]_vars
(***************************************************************************)
(* The caller of gramSchmidt: A is a list of up to MaxRows rows taken from *)
(* a few rows of 3 numbers (dependent ones, the zero row and a tiny row    *)
(* among them) or from the rows of the example of the documentation.       *)
(***************************************************************************)
\* 2^k as a number
Pow2(k) == [s |-> 0, e |-> 1023 + k, h |-> 0, l |-> 0]
IntRow(t) == [j \in 1..Len(t) |-> FromInt(t[j])]
Scaled(r, k) == [j \in 1..Len(r) |-> FMul(r[j], Pow2(k))]

Rows3 == {IntRow(<<1, 1, 0>>), IntRow(<<1, 2, 2>>), IntRow(<<2, 3, 2>>),
          IntRow(<<-1, 0, 3>>), IntRow(<<0, 0, 0>>), Scaled(IntRow(<<0, 0, 1>>), -40)}
\* gramSchmidt(makeMatrix(3, 4, [-1, 1, -1, 1, -1, 3, -1, 3, 1, 3, 5, 7]))
ExampleRows == <<IntRow(<<-1, 1, -1, 1>>), IntRow(<<-1, 3, -1, 3>>), IntRow(<<1, 3, 5, 7>>)>>
Rows4 == {ExampleRows[k] : k \in 1..Len(ExampleRows)}

\* the lists of up to n rows of pool
RowLists(pool, n) == UNION {[1..m -> pool] : m \in 0..n}
RECURSIVE Concat(_, _)
Concat(rows, n) == IF n = 0 THEN <<>> ELSE Concat(rows, n - 1) \o rows[n]
\* makeMatrix(rows.length, c, the rows one after the other)
FromRows(rows, c) == Matrix(Len(rows), c, Concat(rows, Len(rows)))

GramSchmidtInputs ==
  {FromRows(rs, 3) : rs \in RowLists(Rows3, MaxRows)}
  \cup {FromRows(rs, 4) : rs \in RowLists(Rows4, MaxRows)}

InitGS == \E M \in GramSchmidtInputs : Idle(M, makeEmptyMatrix.v)
NextGS == CallGramSchmidt \/ Discard
SpecGS == InitGS /\ [][NextGS]_vars

(***************************************************************************)
(* The caller of qr: the columns of A are such a list of rows.             *)
(***************************************************************************)
QrInputs == {tr(M).v : M \in GramSchmidtInputs}
InitQR == \E M \in QrInputs : Idle(M, makeEmptyMatrix.v)
NextQR == CallQr \/ Discard
SpecQR == InitQR /\ [][NextQR]_vars

(***************************************************************************)
(* The caller of solve: A is as for qr, with at least one column, and b a  *)
(* column vector of A.rows numbers; or they are the A and b of the         *)
(* example of the documentation.                                           *)
(***************************************************************************)
\* solve(makeMatrix(6,2,[2,1,5,1,7,1,11,1,14,1,18,1]), makeColumnVector(6,[5,5,8,7,9,7]))
ExampleA == Matrix(6, 2, IntRow(<<2, 1, 5, 1, 7, 1, 11, 1, 14, 1, 18, 1>>))
ExampleB == Matrix(6, 1, IntRow(<<5, 5, 8, 7, 9, 7>>))

InitSolve ==
  \/ \E M \in QrInputs, p \in 1..NumPatterns :
        M.cols >= 1 /\ Idle(M, Matrix(M.rows, 1, Data(p, M.rows)))
  \/ Idle(ExampleA, ExampleB)
NextSolve == CallSolve \/ Discard
SpecSolve == InitSolve /\ [][NextSolve]_vars

(***************************************************************************)
(* The caller of backSubstitution: R is an upper-triangular matrix of up   *)
(* to MaxN rows and x a column vector, of integers or of Values.  It calls *)
(* backSubstitution(R, x), or backSubstitution(R, mul(R, x)).              *)
(***************************************************************************)
IntegerValues == IntRow(<<1, 2, -3, 3, -1, -2, 5>>)
\* the n x n matrix of the numbers d on and above the diagonal, 0 below
Triangular(n, d) ==
  Matrix(n, n, [k \in 1..(n * n) |->
     IF (k - 1) \div n > (k - 1) % n THEN Zero(0) ELSE d[k]])
ValueLists == {Values, IntegerValues}
Triangulars ==
  {Triangular(n, DataOf(vals, p, n * n)) :
     n \in 1..MaxN, p \in 1..NumPatterns, vals \in ValueLists}
ColumnVectors(n) ==
  {Matrix(n, 1, DataOf(vals, p, n)) : p \in 1..MaxN, vals \in ValueLists}

InitBack == \E R \in Triangulars : \E x \in ColumnVectors(R.rows) : Idle(R, x)
\* backSubstitution(A, mul(A, B)); args keeps the result of mul(A, B)
CallBackSubstitutionOfMul ==
  Call("backSubstitutionOfMul", <<mul(A, B)>>, backSubstitutionOf(A, mul(A, B)))
NextBack == CallBackSubstitution \/ CallBackSubstitutionOfMul \/ Discard
SpecBack == InitBack /\ [][NextBack]_vars

(***************************************************************************)
(* Part 5.  Properties of the basic operations.                            *)
(***************************************************************************)
\* data.length == rows*cols
WellFormed(M) == Len(M.data) = M.rows * M.cols
\* element (i, j) of M, in row-major order
At(M, i, j) == M.data[i * M.cols + j + 1]
IsVector(M) == M.rows = 1 \/ M.cols = 1
Thrown(r, name, msg) == r.t = "throw" /\ r.v = <<name, msg>>

\* the operations C1 lists that return one matrix
MatrixOps == {"makeMatrix", "makeEmptyMatrix", "clone", "row", "column", "appendRow",
              "sum", "sub", "smul", "mul", "tr", "map", "gramSchmidt",
              "backSubstitution"}

\* C1: every matrix returned by makeMatrix, makeEmptyMatrix, clone, row, column,
\* appendRow, sum, sub, smul, mul, tr, map, gramSchmidt, qr or backSubstitution
\* on matrices with data.length == rows*cols has data.length == rows*cols; a
\* call that cannot return such a matrix throws.
C1_ShapeInvariant ==
  /\ WellFormed(A) /\ WellFormed(B)
  /\ (op \in MatrixOps /\ ret.t = "ok") => WellFormed(ret.v)
  /\ (op = "qr" /\ ret.t = "ok") => WellFormed(ret.v[1]) /\ WellFormed(ret.v[2])

\* C1 without appendRow: the other operations keep the invariant
ShapeInvariantButAppendRow == op # "appendRow" => C1_ShapeInvariant

\* C7: makeMatrix(rows, cols, data) with data given returns the matrix of
\* exactly these rows, cols and data when data.length == rows*cols, and throws
\* an error in every other case.
C7_MakeMatrixData ==
  (op = "makeMatrix" /\ args[3] # <<>>) =>
     IF Len(args[3][1]) = args[1] * args[2]
     THEN ret.t = "ok" /\ ret.v.rows = args[1] /\ ret.v.cols = args[2]
          /\ ret.v.data = args[3][1]
     ELSE ret.t = "throw" /\ ret.v[1] = "Error"

\* makeMatrix has returned a 2 x 1 matrix of the two numbers given
C7_Witness ==
  /\ op = "makeMatrix" /\ args[3] # <<>> /\ ret.t = "ok"
  /\ args[1] = 2 /\ args[2] = 1 /\ ret.v.data = Data(1, 2)

\* the sum over k in 0..n-1 of X(i,k)*Y(k,j), from 0, in the order of k
RECURSIVE ProductSum(_, _, _, _, _)
ProductSum(X, Y, i, j, n) ==
  IF n = 0 THEN Zero(0)
  ELSE FAdd(ProductSum(X, Y, i, j, n - 1), FMul(At(X, i, n - 1), At(Y, n - 1, j)))

\* C8: mul(A, B) throws exactly when A.cols != B.rows; otherwise it returns
\* the A.rows x B.cols matrix of A.rows*B.cols elements whose element (i,j) is
\* the sum over k of A(i,k)*B(k,j), which is 0 when A.cols == 0.
C8_Mul ==
  op = "mul" =>
     IF A.cols # B.rows THEN ret.t = "throw" /\ ret.v[1] = "Error"
     ELSE /\ ret.t = "ok"
          /\ ret.v.rows = A.rows /\ ret.v.cols = B.cols
          /\ Len(ret.v.data) = A.rows * B.cols
          /\ \A i \in 0..(A.rows - 1), j \in 0..(B.cols - 1) :
                /\ At(ret.v, i, j) = ProductSum(A, B, i, j, A.cols)
                /\ A.cols = 0 => At(ret.v, i, j) = Zero(0)

\* mul has returned the product of two matrices of MaxDim rows and columns
C8_Witness ==
  /\ op = "mul" /\ ret.t = "ok"
  /\ A.rows = MaxDim /\ A.cols = MaxDim /\ B.cols = MaxDim
  /\ At(ret.v, 0, 0) # Zero(0)

\* C9: on well-formed A and B, sum(A, B) and sub(A, B) throw exactly when A and
\* B differ in rows or in cols; otherwise the result has the shape of A and
\* its element (i,j) is A(i,j) + B(i,j) for sum, A(i,j) - B(i,j) for sub.
C9_SumSub ==
  (op \in {"sum", "sub"} /\ WellFormed(A) /\ WellFormed(B)) =>
     IF A.rows # B.rows \/ A.cols # B.cols THEN ret.t = "throw" /\ ret.v[1] = "Error"
     ELSE /\ ret.t = "ok"
          /\ ret.v.rows = A.rows /\ ret.v.cols = A.cols
          /\ Len(ret.v.data) = A.rows * A.cols
          /\ \A i \in 0..(A.rows - 1), j \in 0..(A.cols - 1) :
                At(ret.v, i, j) = IF op = "sum" THEN FAdd(At(A, i, j), At(B, i, j))
                                  ELSE FSub(At(A, i, j), At(B, i, j))

\* sub has returned the difference of two matrices that differ
C9_Witness ==
  /\ op = "sub" /\ ret.t = "ok" /\ A.rows = MaxDim /\ A.cols = MaxDim
  /\ At(ret.v, 0, 0) # Zero(0)

\* the sum over i in 0..n-1 of x[i]*y[i], from 0, in the order of i
RECURSIVE InnerProduct(_, _, _)
InnerProduct(x, y, n) ==
  IF n = 0 THEN Zero(0)
  ELSE FAdd(InnerProduct(x, y, n - 1), FMul(x[n], y[n]))

\* C10: dot(x, y) throws the not-a-vector error when x or y has neither
\* rows == 1 nor cols == 1, whatever their lengths; for two vectors it throws
\* the length error exactly when their element counts differ; otherwise it
\* returns the sum over i of x.data[i]*y.data[i], row or column vectors alike.
C10_Dot ==
  op = "dot" =>
     IF ~IsVector(A) \/ ~IsVector(B)
     THEN Thrown(ret, "Error", "Only vectors can be used in scalar product")
     ELSE IF A.rows * A.cols # B.rows * B.cols
     THEN Thrown(ret, "Error", "The vectors differ in length")
     ELSE ret.t = "ok" /\ ret.v = InnerProduct(A.data, B.data, Len(A.data))

\* dot has returned the product of a row vector and a column vector
C10_Witness ==
  /\ op = "dot" /\ ret.t = "ok"
  /\ A.rows = 1 /\ A.cols = MaxDim /\ B.rows = MaxDim /\ B.cols = 1
(***************************************************************************)
(* Part 6.  Properties of gramSchmidt.  Linear dependence is decided       *)
(* exactly, on the integers the rows are made of.                          *)
(***************************************************************************)
\* x is an integer of absolute value below 2^20
IsSmallInt(x) ==
  IsZero(x) \/ (x.e >= 1023 /\ x.e <= 1042 /\ ~PLowNonZero(<<x.h, x.l>>, 1075 - x.e))
\* the integer a small integer x is
IntValue(x) ==
  IF IsZero(x) THEN 0
  ELSE (IF x.s = 1 THEN -1 ELSE 1) * PShr(<<H24 + x.h, x.l>>, 1075 - x.e)[2]
\* x * 2^k, for a normal number x or zero
TimesPow2(x, k) == IF IsZero(x) THEN x ELSE [x EXCEPT !.e = x.e + k]
\* row i of M (from 0) as a sequence of numbers
RowOf(M, i) == [j \in 1..M.cols |-> At(M, i, j - 1)]
\* a row of integers that is a multiple of the row r by a power of 2
RowInts(r) ==
  LET k == CHOOSE k \in 0..60 : \A j \in 1..Len(r) : IsSmallInt(TimesPow2(r[j], k))
  IN [j \in 1..Len(r) |-> IntValue(TimesPow2(r[j], k))]

RECURSIVE IntDot(_, _, _)
IntDot(u, v, n) == IF n = 0 THEN 0 ELSE IntDot(u, v, n - 1) + u[n] * v[n]
\* the Gram matrix of the rows 0..n-1 of M
Gram(M, n) ==
  [i \in 1..n |-> [j \in 1..n |->
     IntDot(RowInts(RowOf(M, i - 1)), RowInts(RowOf(M, j - 1)), M.cols)]]
\* G without its first row and its column j
Minor(G, j) ==
  [i \in 1..(Len(G) - 1) |->
     [k \in 1..(Len(G) - 1) |-> G[i + 1][IF k < j THEN k ELSE k + 1]]]
RECURSIVE Det(_)
RECURSIVE DetSum(_, _)
DetSum(G, j) ==
  IF j = 0 THEN 0
  ELSE DetSum(G, j - 1) + (IF j % 2 = 1 THEN 1 ELSE -1) * G[1][j] * Det(Minor(G, j))
Det(G) == IF Len(G) = 0 THEN 1 ELSE DetSum(G, Len(G))

\* the rows 0..n-1 of M are linearly independent
IndependentRows(M, n) == Det(Gram(M, n)) # 0
\* the index of the first row that is a linear combination of the rows before
FirstDependent(M) ==
  CHOOSE i \in 0..(M.rows - 1) :
     ~IndependentRows(M, i + 1) /\ IndependentRows(M, i)

\* all the elements of M are integers of absolute value at most n
IntegersUpTo(M, n) ==
  \A k \in 1..Len(M.data) :
     /\ IsSmallInt(M.data[k])
     /\ IntValue(M.data[k]) <= n /\ IntValue(M.data[k]) >= -n

\* C2: for A with linearly dependent rows (a zero row included),
\* gramSchmidt(A) returns Q with Q.rows < A.rows and Q.rows the index of the
\* first row of A that is a linear combination of the rows before it.
C2_DependentRows ==
  (op = "gramSchmidt" /\ ~IndependentRows(A, A.rows)) =>
     /\ ret.t = "ok"
     /\ ret.v.rows < A.rows
     /\ ret.v.rows = FirstDependent(A)

\* C2 for A of integers of absolute value at most 3 whose first row is not
\* the zero row
DependentRowsAfterNonZero ==
  (/\ op = "gramSchmidt" /\ IntegersUpTo(A, 3)
   /\ ~IndependentRows(A, A.rows) /\ IndependentRows(A, 1)) =>
     /\ ret.t = "ok"
     /\ ret.v.rows < A.rows
     /\ ret.v.rows = FirstDependent(A)

\* |x - y| <= 1e-10
Within(x, y) == FLe(FAbs(FSub(x, y)), Tolerance)
\* the rows of Q have norm 1 and dot product 0, within 1e-10
Orthonormal(Q) ==
  \A i \in 0..(Q.rows - 1), j \in 0..(Q.rows - 1) :
     IF i = j THEN Within(norm(row(i, Q).v), One)
     ELSE Within(dot(row(i, Q).v, row(j, Q).v).v, Zero(0))

\* gramSchmidt(A) returns Q of the shape of A with orthonormal rows
FullOrthonormalBasis ==
  /\ ret.t = "ok"
  /\ ret.v.rows = A.rows /\ ret.v.cols = A.cols
  /\ WellFormed(ret.v)
  /\ Orthonormal(ret.v)

Example == FromRows(ExampleRows, 4)
\* [-0.5, 0.5, -0.5, 0.5], [0.5, 0.5, 0.5, 0.5], [-0.5, -0.5, 0.5, 0.5]
ExampleQ ==
  Matrix(3, 4, [k \in 1..12 |->
     IF k \in {1, 3, 10, 9} THEN FNeg(Half) ELSE Half])

\* C3: for every A with linearly independent rows, gramSchmidt(A)
\* returns Q with Q.rows == A.rows, Q.cols == A.cols and orthonormal rows
\* (within 1e-10), and the example gives the three rows of +-0.5.
C3_IndependentRows ==
  (op = "gramSchmidt" /\ IndependentRows(A, A.rows)) =>
     /\ FullOrthonormalBasis
     /\ A = Example => ret.v = ExampleQ

\* C3 for the A of the caller of at least one row, of integers of absolute
\* value at most 7: Q has the shape of A and orthonormal rows
IndependentRowsOfIntegers ==
  (/\ op = "gramSchmidt" /\ A.rows >= 1 /\ IntegersUpTo(A, 7)
   /\ IndependentRows(A, A.rows)) => FullOrthonormalBasis

\* C3 for the example: exactly the three rows [-0.5,0.5,-0.5,0.5],
\* [0.5,0.5,0.5,0.5], [-0.5,-0.5,0.5,0.5]
GramSchmidtExample ==
  (op = "gramSchmidt" /\ A = Example) => ret.t = "ok" /\ ret.v = ExampleQ

(***************************************************************************)
(* Part 7.  Properties of qr, solve and backSubstitution.                  *)
(***************************************************************************)
\* 1e-9, the nearest number to 1/10^9
Tolerance9 == FDiv(One, FMul(FromInt(100000), FromInt(10000)))
\* |x - y| <= 1e-9
Within9(x, y) == FLe(FAbs(FSub(x, y)), Tolerance9)
\* X and Y are well-formed matrices of one shape
SameShape(X, Y) ==
  X.rows = Y.rows /\ X.cols = Y.cols /\ WellFormed(X) /\ WellFormed(Y)
\* X and Y have the same shape and elements within 1e-9
Near(X, Y) ==
  SameShape(X, Y) /\ \A k \in 1..Len(X.data) : Within9(X.data[k], Y.data[k])
\* X and Y have the same shape and equal elements
Equal(X, Y) ==
  SameShape(X, Y) /\ \A k \in 1..Len(X.data) : FEq(X.data[k], Y.data[k])
\* the columns of M are linearly independent
IndependentColumns(M) == IndependentRows(tr(M).v, M.cols)
\* the product of the results P and Q of two calls is near Y
ProductNear(P, Y) == P.t = "ok" /\ Near(P.v, Y)
ProductEqual(P, Y) == P.t = "ok" /\ Equal(P.v, Y)

\* C4: for every well-formed A with at least one row and one column, dependent
\* columns included, (Q, R) = qr(A) has mul(Q, R) == A elementwise within
\* 1e-9 and R(i,j) == 0 for every i > j.
C4_QrProduct ==
  (op = "qr" /\ WellFormed(A) /\ A.rows >= 1 /\ A.cols >= 1) =>
     /\ ret.t = "ok"
     /\ ProductNear(mul(ret.v[1], ret.v[2]), A)
     /\ \A i \in 0..(ret.v[2].rows - 1), j \in 0..(ret.v[2].cols - 1) :
           i > j => FEq(At(ret.v[2], i, j), Zero(0))

\* C4 for A of integers of absolute value at most 3 with linearly independent
\* columns, R(i,j) being 0 within 1e-9 for i > j
QrOfIndependentColumns ==
  (/\ op = "qr" /\ A.rows >= 1 /\ A.cols >= 1 /\ IntegersUpTo(A, 3)
   /\ IndependentColumns(A)) =>
     /\ ret.t = "ok"
     /\ ProductNear(mul(ret.v[1], ret.v[2]), A)
     /\ \A i \in 0..(ret.v[2].rows - 1), j \in 0..(ret.v[2].cols - 1) :
           i > j => Within9(At(ret.v[2], i, j), Zero(0))

\* the case C5 is about: solve(A, b) was called with A.rows >= A.cols >= 1,
\* linearly independent columns and a column vector b of A.rows rows
SolveCase ==
  /\ op = "solve"
  /\ A.rows >= A.cols /\ A.cols >= 1 /\ IndependentColumns(A)
  /\ B.rows = A.rows /\ B.cols = 1

\* backSubstitution(R, mul(tr(Q), b)) for the result QR of qr(A)
BackSubstitutionOfQr(QR, b) ==
  IF QR.t = "throw" THEN QR
  ELSE backSubstitutionOf(QR.v[2], mulOf(tr(QR.v[1]), b))

\* the result is what backSubstitution(R, mul(tr(Q), b)) returns, an
\* A.cols x 1 vector
SolveComposition ==
  /\ ret = BackSubstitutionOfQr(qr(A), B)
  /\ ret.t = "ok"
  /\ ret.v.rows = A.cols /\ ret.v.cols = 1 /\ WellFormed(ret.v)

\* [0.17183098591549267, 5.200938967136154]
ExampleX ==
  Matrix(2, 1, <<[s |-> 0, e |-> 1020, h |-> 6285548, l |-> 142157358],
                 [s |-> 0, e |-> 1025, h |-> 5037103, l |-> 30498305]>>)
SolveExample == (op = "solve" /\ A = ExampleA /\ B = ExampleB) => ret = Ok(ExampleX)

\* C5: in this case solve(A, b) equals backSubstitution(R,
\* mul(tr(Q), b)), is an A.cols x 1 vector x with tr(A)*A*x == tr(A)*b, and
\* with A*x == b when A is square; the example gives
\* [0.17183098591549267, 5.200938967136154].
C5_Solve ==
  /\ SolveCase =>
       /\ SolveComposition
       /\ ProductEqual(mulOf(mulOf(tr(A), A), ret.v), mulOf(tr(A), B).v)
       /\ A.rows = A.cols => ProductEqual(mul(A, ret.v), B)
  /\ SolveExample

\* C5 for the A of the caller of integers of absolute value at most 18, the
\* equalities within 1e-9
SolveOfIntegers ==
  (SolveCase /\ IntegersUpTo(A, 18)) =>
     /\ SolveComposition
     /\ ProductNear(mulOf(mulOf(tr(A), A), ret.v), mulOf(tr(A), B).v)
     /\ A.rows = A.cols => ProductNear(mul(A, ret.v), B)

\* the case C6 is about: backSubstitution(R, mul(R, x)) was called with R
\* square (n x n, n >= 1), upper-triangular, of nonzero diagonal, and x a
\* column vector of n rows
RoundTripCase ==
  /\ op = "backSubstitutionOfMul"
  /\ A.rows >= 1 /\ A.cols = A.rows /\ WellFormed(A)
  /\ \A i \in 0..(A.rows - 1), j \in 0..(A.rows - 1) :
        IF i > j THEN FEq(At(A, i, j), Zero(0))
        ELSE i = j => ~FEq(At(A, i, j), Zero(0))
  /\ B.rows = A.rows /\ B.cols = 1 /\ WellFormed(B)

\* C6 as stated: in this case backSubstitution(R, mul(R, x)) is an n x 1
\* column vector equal to x.
C6_RoundTripAsStated == RoundTripCase => ret.t = "ok" /\ Equal(ret.v, B)

\* C6, amended: in this case, for R and x of integers of absolute value at
\* most 1000, backSubstitution(R, mul(R, x)) is an n x 1 column vector equal
\* to x.
C6_RoundTrip ==
  (RoundTripCase /\ IntegersUpTo(A, 1000) /\ IntegersUpTo(B, 1000)) =>
     ret.t = "ok" /\ Equal(ret.v, B)

\* backSubstitution(R, mul(R, x)) has returned for R and x of MaxN rows of
\* integers
C6_Witness ==
  /\ RoundTripCase /\ IntegersUpTo(A, 1000) /\ IntegersUpTo(B, 1000)
  /\ A.rows = MaxN /\ ret.t = "ok"
(***************************************************************************)
(* Part 8.  Extraction of rows, columns and elements.                      *)
(***************************************************************************)
\* a RangeError was thrown
RangeFailure(r) == r.t = "throw" /\ r.v[1] = "RangeError"

\* r is the 1 x M.cols matrix of row i of M
IsRowOf(r, i, M) ==
  /\ r.rows = 1 /\ r.cols = M.cols /\ Len(r.data) = M.cols
  /\ \A j \in 0..(M.cols - 1) : r.data[j + 1] = At(M, i, j)

\* c is the M.rows x 1 matrix of column j of M
IsColumnOf(c, j, M) ==
  /\ c.rows = M.rows /\ c.cols = 1 /\ Len(c.data) = M.rows
  /\ \A i \in 0..(M.rows - 1) : c.data[i + 1] = At(M, i, j)

\* C11: for every shape of A, zero rows or zero columns included: row(i, A)
\* throws a RangeError exactly when i < 0 or i >= A.rows and otherwise returns
\* the 1 x A.cols matrix of row i; column(j, A) throws exactly when j < 0 or
\* j >= A.cols and otherwise returns the A.rows x 1 matrix of the elements
\* A(i,j); get(A, i) throws exactly when i < 0 or i >= A.rows*A.cols and
\* otherwise returns data[i]; get(A, i, j) throws exactly when i is outside
\* [0, A.rows) or j is outside [0, A.cols) and otherwise returns
\* data[i*A.cols + j].
C11_Extraction ==
  /\ op = "row" =>
        IF args[1] < 0 \/ args[1] >= A.rows THEN RangeFailure(ret)
        ELSE ret.t = "ok" /\ IsRowOf(ret.v, args[1], A)
  /\ op = "column" =>
        IF args[1] < 0 \/ args[1] >= A.cols THEN RangeFailure(ret)
        ELSE ret.t = "ok" /\ IsColumnOf(ret.v, args[1], A)
  /\ (op = "get" /\ args[2] = <<>>) =>
        IF args[1] < 0 \/ args[1] >= A.rows * A.cols THEN RangeFailure(ret)
        ELSE ret.t = "ok" /\ ret.v = A.data[args[1] + 1]
  /\ (op = "get" /\ args[2] # <<>>) =>
        IF args[1] < 0 \/ args[1] >= A.rows \/ args[2][1] < 0 \/ args[2][1] >= A.cols
        THEN RangeFailure(ret)
        ELSE ret.t = "ok" /\ ret.v = A.data[args[1] * A.cols + args[2][1] + 1]

\* row has thrown for the index 0 of a matrix of no rows and MaxDim columns
C11_Witness ==
  /\ op = "row" /\ args[1] = 0 /\ A.rows = 0 /\ A.cols = MaxDim
  /\ RangeFailure(ret)

\* row, column and get have returned the last row, column and element of a
\* matrix of MaxDim rows and columns
ExtractionReturns ==
  /\ A.rows = MaxDim /\ A.cols = MaxDim /\ ret.t = "ok"
  /\ \/ op = "row" /\ args[1] = MaxDim - 1 /\ IsRowOf(ret.v, MaxDim - 1, A)
     \/ op = "column" /\ args[1] = MaxDim - 1 /\ IsColumnOf(ret.v, MaxDim - 1, A)
     \/ op = "get" /\ args = <<MaxDim - 1, <<MaxDim - 1>>>>
(***************************************************************************)
(* Part 9.  The caller that grows a matrix row by row: A is the matrix Q,  *)
(* empty at first, B the row appended last, args[1] the rows appended so   *)
(* far, in order, and args[2] the index given to row when the caller reads *)
(* a row of Q back.                                                        *)
(***************************************************************************)
MaxAppends == 3

\* the row vectors of up to MaxDim numbers
RowVectors == {Matrix(1, n, Data(p, n)) : n \in 0..MaxDim, p \in 1..NumPatterns}

InitAppend ==
  /\ A = makeEmptyMatrix.v
  /\ B = makeEmptyMatrix.v
  /\ op = "makeEmptyMatrix" /\ args = <<<<>>, <<>>>> /\ ret = makeEmptyMatrix
  /\ heap = <<>>

\* Q = appendRow(Q, r)
AppendRowToQ ==
  \E r \in RowVectors :
     /\ Len(args[1]) < MaxAppends
     /\ A' = appendRow(A, r)
     /\ B' = r
     /\ op' = "appendRow"
     /\ args' = <<Append(args[1], r), <<>>>>
     /\ ret' = Ok(appendRow(A, r))
     /\ UNCHANGED heap

\* row(i, Q)
RowOfQ ==
  \E i \in (-1)..MaxAppends :
     /\ op' = "row"
     /\ args' = <<args[1], <<i>>>>
     /\ ret' = row(i, A)
     /\ UNCHANGED <<A, B, heap>>

NextAppend == AppendRowToQ \/ RowOfQ
SpecAppend == InitAppend /\ [][NextAppend]_vars

\* the data of the rows rs, one after the other
RECURSIVE Concatenation(_)
Concatenation(rs) ==
  IF rs = <<>> THEN <<>> ELSE Concatenation(SubSeq(rs, 1, Len(rs) - 1)) \o rs[Len(rs)].data

\* k >= 1 rows were appended, all of the same length
SameLengthAppends ==
  /\ Len(args[1]) >= 1
  /\ \A m \in 1..Len(args[1]) : args[1][m].rows = 1 /\ args[1][m].cols = args[1][1].cols

\* C12: from makeEmptyMatrix(), after k >= 1 calls Q := appendRow(Q, r_m) with
\* every r_m a row of the same length N, Q has rows == k, cols == N and data
\* the concatenation of the appended rows in order, and row(i, Q) is the i-th
\* appended row for every 0 <= i < k.
C12_AppendRows ==
  SameLengthAppends =>
     /\ A.rows = Len(args[1]) /\ A.cols = args[1][1].cols
     /\ A.data = Concatenation(args[1])
     /\ \A i \in 0..(Len(args[1]) - 1) : row(i, A) = Ok(args[1][i + 1])
     /\ (op = "row" /\ args[2][1] >= 0 /\ args[2][1] < Len(args[1])) =>
           ret = Ok(args[1][args[2][1] + 1])

\* MaxAppends rows of MaxDim numbers were appended, not all the same, and
\* row has read the last one back
C12_Witness ==
  /\ SameLengthAppends /\ Len(args[1]) = MaxAppends /\ args[1][1].cols = MaxDim
  /\ args[1][1] # args[1][MaxAppends]
  /\ op = "row" /\ args[2] = <<MaxAppends - 1>> /\ ret = Ok(args[1][MaxAppends])
(***************************************************************************)
(* Part 10.  Storage.  Each array is an object of heap, the sequence of    *)
(* the arrays created so far, and the data of a matrix is a reference to   *)
(* one, an index of heap.  A call creates the arrays its code creates      *)
(* (new Array, [], [...d], slice, concat, map) and returns the reference   *)
(* its code returns.  The arrays a call creates and does not return are    *)
(* left out: nothing refers to them after the call.  The arrays toArray    *)
(* returns are the data of no matrix and are kept by value.  After a call  *)
(* the caller may write a number in place, into the first element of an    *)
(* array it holds: M.data[0] = 7.                                          *)
(***************************************************************************)
\* the matrix M with its data read from the heap h
Deref(h, M) == Matrix(M.rows, M.cols, h[M.data])

\* the number the caller writes: none of Values
Written == FromInt(7)

InitStorage ==
  \E M1 \in SmallMatrices, M2 \in SmallMatrices :
     /\ M2.data = Data(1, M2.rows * M2.cols)
     /\ heap = <<M1.data, M2.data>>
     /\ A = Matrix(M1.rows, M1.cols, 1)
     /\ B = Matrix(M2.rows, M2.cols, 2)
     /\ op = "none" /\ args = <<>> /\ ret = NoCall

\* the call of name with the other arguments a returns r and leaves the heap h
CallOnHeap(name, a, r, h) ==
  /\ op = "none"
  /\ op' = name
  /\ args' = a
  /\ ret' = r
  /\ heap' = h
  /\ UNCHANGED <<A, B>>

\* the call throws, or returns the matrix r.v with its data in a new array
ReturnNew(name, a, r) ==
  /\ op = "none"
  /\ IF r.t = "ok"
     THEN CallOnHeap(name, a, Ok(Matrix(r.v.rows, r.v.cols, Len(heap) + 1)),
                     Append(heap, r.v.data))
     ELSE CallOnHeap(name, a, r, heap)

\* the call throws, or returns the matrices r.v[1] and r.v[2], each with its
\* data in a new array
ReturnNewPair(name, a, r) ==
  /\ op = "none"
  /\ IF r.t = "ok"
     THEN CallOnHeap(name, a,
                     Ok(<<Matrix(r.v[1].rows, r.v[1].cols, Len(heap) + 1),
                          Matrix(r.v[2].rows, r.v[2].cols, Len(heap) + 2)>>),
                     heap \o <<r.v[1].data, r.v[2].data>>)
     ELSE CallOnHeap(name, a, r, heap)

\* data: data ? data : new Array(rows * cols): the array given is the array
\* returned; the caller gives the array of A, or none
StorageMakeMatrix ==
  \E rows \in Indexes, cols \in Indexes :
     \/ ReturnNew("makeMatrix", <<rows, cols, <<>>>>, makeMatrix(rows, cols, <<>>))
     \/ CallOnHeap("makeMatrix", <<rows, cols, <<A.data>>>>,
                   IF makeMatrix(rows, cols, <<heap[A.data]>>).t = "ok"
                   THEN Ok(Matrix(rows, cols, A.data))
                   ELSE makeMatrix(rows, cols, <<heap[A.data]>>),
                   heap)
StorageClone == ReturnNew("clone", <<>>, Ok(clone(Deref(heap, A))))
StorageRow == \E i \in Indexes : ReturnNew("row", <<i>>, row(i, Deref(heap, A)))
StorageColumn == \E j \in Indexes : ReturnNew("column", <<j>>, column(j, Deref(heap, A)))
StorageAppendRow ==
  ReturnNew("appendRow", <<>>, Ok(appendRow(Deref(heap, A), Deref(heap, B))))
StorageSum == ReturnNew("sum", <<>>, sum(Deref(heap, A), Deref(heap, B)))
StorageSub == ReturnNew("sub", <<>>, sub(Deref(heap, A), Deref(heap, B)))
\* smul writing the products into the array of A and returning that array
StorageSmulInPlace ==
  \E scalar \in Scalars :
     CallOnHeap("smul", <<scalar>>, Ok(A),
                [heap EXCEPT ![A.data] = smul(scalar, Deref(heap, A)).data])
StorageSmul ==
  \E scalar \in Scalars : ReturnNew("smul", <<scalar>>, Ok(smul(scalar, Deref(heap, A))))
StorageMul == ReturnNew("mul", <<>>, mul(Deref(heap, A), Deref(heap, B)))
StorageTr == ReturnNew("tr", <<>>, tr(Deref(heap, A)))
StorageMap == \E f \in Functions : ReturnNew("map", <<f>>, Ok(map(f, Deref(heap, A))))
StorageNorm == CallOnHeap("norm", <<>>, Ok(norm(Deref(heap, A))), heap)
StorageDot == CallOnHeap("dot", <<>>, dot(Deref(heap, A), Deref(heap, B)), heap)
StorageGet ==
  \E i \in Indexes, j \in {<<>>} \cup {<<k>> : k \in Indexes} :
     CallOnHeap("get", <<i, j>>, get(Deref(heap, A), i, j), heap)
StorageToArray == CallOnHeap("toArray", <<>>, Ok(toArray(Deref(heap, A))), heap)
StorageGramSchmidt == ReturnNew("gramSchmidt", <<>>, gramSchmidt(Deref(heap, A)))
StorageQr == ReturnNewPair("qr", <<>>, qr(Deref(heap, A)))
StorageBackSubstitution ==
  ReturnNew("backSubstitution", <<>>, backSubstitution(Deref(heap, A), Deref(heap, B)))
StorageSolve == ReturnNew("solve", <<>>, solve(Deref(heap, A), Deref(heap, B)))

\* the arrays the caller holds: those of A and B and those returned
Held ==
  {A.data, B.data} \cup
  (IF ret.t # "ok" THEN {}
   ELSE IF op \in MatrixOps \cup {"solve"} THEN {ret.v.data}
   ELSE IF op = "qr" THEN {ret.v[1].data, ret.v[2].data}
   ELSE {})

\* M.data[0] = 7, once, on an array the caller holds after a call
WriteElement ==
  \E ref \in Held :
     /\ op \notin {"none", "write"}
     /\ Len(heap[ref]) > 0
     /\ heap' = [heap EXCEPT ![ref][1] = Written]
     /\ op' = "write"
     /\ UNCHANGED <<A, B, args, ret>>

\* the caller drops the result, and the arrays only the result referred to
\* go with it
DropResult ==
  /\ op \notin {"none", "write"}
  /\ op' = "none"
  /\ args' = <<>>
  /\ ret' = NoCall
  /\ heap' = SubSeq(heap, 1, 2)
  /\ UNCHANGED <<A, B>>

NextStorage ==
  \/ StorageMakeMatrix
  \/ StorageClone
  \/ StorageRow
  \/ StorageColumn
  \/ StorageAppendRow
  \/ StorageSum
  \/ StorageSub
  \/ StorageSmul
  \/ StorageMul
  \/ StorageTr
  \/ StorageMap
  \/ StorageNorm
  \/ StorageDot
  \/ StorageGet
  \/ StorageToArray
  \/ StorageGramSchmidt
  \/ StorageQr
  \/ StorageBackSubstitution
  \/ StorageSolve
  \/ WriteElement
  \/ DropResult

SpecStorage == InitStorage /\ [][NextStorage]_vars
(***************************************************************************)
(* Part 11.  Properties of the storage.                                    *)
(***************************************************************************)
\* the operations C13 lists
ArgumentOps == {"clone", "row", "column", "appendRow", "sum", "sub", "smul", "mul", "tr",
                "map", "norm", "dot", "get", "toArray", "gramSchmidt", "qr",
                "backSubstitution", "solve"}

\* C13: no operation changes its Matrix arguments: after clone, row, column,
\* appendRow, sum, sub, smul, mul, tr, map, norm, dot, get, toArray,
\* gramSchmidt, qr, backSubstitution or solve returns or fails, the rows, cols
\* and every data element of each argument matrix are as before the call.
C13_ArgumentsUnchanged ==
  [][(op = "none" /\ op' \in ArgumentOps) =>
        /\ Deref(heap', A') = Deref(heap, A)
        /\ Deref(heap', B') = Deref(heap, B)]_vars

\* solve has returned for a matrix of MaxDim rows and columns, and the heap
\* holds the arrays of A and b as they were and the array of the result
C13_Witness ==
  /\ op = "solve" /\ ret.t = "ok" /\ A.rows = MaxDim /\ A.cols = MaxDim
  /\ Len(heap) = 3 /\ ret.v.data = 3
  /\ heap[A.data] = Data(1, MaxDim * MaxDim) /\ heap[B.data] = Data(1, MaxDim)

\* the operations C14 lists
OwnerOps == {"makeMatrix", "clone", "row", "column", "appendRow", "smul", "map", "sum",
             "sub", "mul", "tr", "gramSchmidt"}

\* the write of this step changes the matrix returned and an input as well
WriteChangesBoth ==
  /\ heap'[ret.v.data] # heap[ret.v.data]
  /\ heap'[A.data] # heap[A.data] \/ heap'[B.data] # heap[B.data]

\* C14: the data of every matrix returned by makeMatrix with supplied data,
\* clone, row, column, appendRow, smul, map, sum, sub, mul, tr or gramSchmidt
\* is storage of its own: a write to an element of an input after the call
\* never changes the returned matrix, and a write to the returned matrix
\* never changes an input.
C14_OwnStorage ==
  [][(op \in OwnerOps /\ ret.t = "ok" /\ op' = "write") => ~WriteChangesBoth]_vars

\* C14 for the operations other than makeMatrix
OwnStorageButMakeMatrix ==
  [][(op \in OwnerOps \ {"makeMatrix"} /\ ret.t = "ok" /\ op' = "write") =>
        ~WriteChangesBoth]_vars

\* C14 for makeMatrix without data: the array is new
OwnStorageWithoutData ==
  [][(op = "makeMatrix" /\ args[3] = <<>> /\ ret.t = "ok" /\ op' = "write") =>
        ~WriteChangesBoth]_vars
(***************************************************************************)
(* Part 12.  qr of linearly dependent columns, backSubstitution with a     *)
(* zero on the diagonal.                                                   *)
(***************************************************************************)
\* qr(A) was called with A of at least one row and one column whose columns
\* are linearly dependent
DependentColumnsCase ==
  /\ op = "qr" /\ WellFormed(A) /\ A.rows >= 1 /\ A.cols >= 1
  /\ ~IndependentColumns(A)

\* Q is A.rows x k and R is k x A.cols
QrShapes(Q, R, k) ==
  /\ Q.rows = A.rows /\ Q.cols = k
  /\ R.rows = k /\ R.cols = A.cols

\* C15: for every well-formed A with at least one row and one column whose
\* columns are linearly dependent, qr(A) returns a pair (Q, R) and throws no
\* error, where Q has A.rows rows and k columns with 1 <= k < A.cols, and R
\* has k rows and A.cols columns.
C15_DependentColumns ==
  DependentColumnsCase =>
     /\ ret.t = "ok"
     /\ QrShapes(ret.v[1], ret.v[2], ret.v[1].cols)
     /\ 1 <= ret.v[1].cols /\ ret.v[1].cols < A.cols

\* C15 but for k < A.cols: no error, and the shapes of Q and R agree
DependentColumnsNoError ==
  DependentColumnsCase =>
     /\ ret.t = "ok"
     /\ QrShapes(ret.v[1], ret.v[2], ret.v[1].cols)
     /\ 1 <= ret.v[1].cols /\ ret.v[1].cols <= A.cols

\* C15 for A of integers of absolute value at most 3 whose first column is
\* not the zero column
DependentColumnsAfterNonZero ==
  (DependentColumnsCase /\ IntegersUpTo(A, 3) /\ IndependentRows(tr(A).v, 1)) =>
     /\ ret.t = "ok"
     /\ QrShapes(ret.v[1], ret.v[2], ret.v[1].cols)
     /\ 1 <= ret.v[1].cols /\ ret.v[1].cols < A.cols

\* The caller of backSubstitution with a zero on the diagonal: R is a square
\* matrix of up to MaxN rows with zeros at the rows zs of its diagonal, and b
\* a column vector or a row vector of R.rows numbers.
\* R with 0 at the rows zs of its diagonal and the number low below it
Singular(R, zs, low) ==
  Matrix(R.rows, R.cols, [k \in 1..Len(R.data) |->
     IF (k - 1) \div R.cols > (k - 1) % R.cols THEN low
     ELSE IF (k - 1) \div R.cols = (k - 1) % R.cols /\ (k - 1) % R.cols \in zs THEN Zero(0)
     ELSE R.data[k]])
Singulars ==
  {Singular(R, zs, low) : R \in Triangulars, zs \in SUBSET (0..(MaxN - 1)),
                          low \in {Zero(0), FromInt(5)}}
Vectors(n) == ColumnVectors(n) \cup {Matrix(1, n, x.data) : x \in ColumnVectors(n)}

InitSingular ==
  \E R \in Singulars : \E b \in Vectors(R.rows) :
     /\ \E z \in 0..(R.rows - 1) : IsZero(At(R, z, z))
     /\ Idle(R, b)
NextSingular == CallBackSubstitution \/ Discard
SpecSingular == InitSingular /\ [][NextSingular]_vars

\* the rows of R with 0 on the diagonal
ZeroRows(R) == {z \in 0..(R.rows - 1) : IsZero(At(R, z, z))}
\* R with 1 in the place of each 0 of its diagonal
NonZeroDiagonal(R) ==
  Matrix(R.rows, R.cols, [k \in 1..Len(R.data) |->
     IF (k - 1) \div R.cols = (k - 1) % R.cols /\ IsZero(R.data[k]) THEN One
     ELSE R.data[k]])

\* backSubstitution(R, b) was called with R square, n x n, n >= 1, with a zero
\* on its diagonal, and b a vector of n elements
ZeroDiagonalCase ==
  /\ op = "backSubstitution"
  /\ A.rows >= 1 /\ A.cols = A.rows /\ WellFormed(A) /\ ZeroRows(A) # {}
  /\ IsVector(B) /\ WellFormed(B) /\ Len(B.data) = A.rows

\* C16: for every square n x n matrix R (n >= 1) with a zero diagonal entry
\* and every vector b of n elements, backSubstitution(R, b) throws no error:
\* it returns an n x 1 column vector in which the entry of each
\* zero-diagonal row, and every entry computed from it (the rows above), is
\* Infinity, -Infinity or NaN, while the entries of the rows below the last
\* zero-diagonal row are the finite values they are for a nonzero diagonal.
C16_ZeroDiagonal ==
  ZeroDiagonalCase =>
     /\ ret.t = "ok"
     /\ ret.v.rows = A.rows /\ ret.v.cols = 1 /\ Len(ret.v.data) = A.rows
     /\ \A i \in 0..(A.rows - 1) :
           IF \E z \in ZeroRows(A) : i <= z
           THEN IsNumber(ret.v.data[i + 1]) /\ ~IsFinite(ret.v.data[i + 1])
           ELSE /\ IsNumber(ret.v.data[i + 1]) /\ IsFinite(ret.v.data[i + 1])
                /\ ret.v.data[i + 1] = backSubstitution(NonZeroDiagonal(A), B).v.data[i + 1]

\* backSubstitution has returned for R of MaxN rows with a zero at the middle
\* of its diagonal only: an infinite entry there, a finite one below
C16_Witness ==
  /\ ZeroDiagonalCase /\ A.rows = MaxN /\ ZeroRows(A) = {MaxN - 2}
  /\ ret.t = "ok"
  /\ IsInf(ret.v.data[MaxN - 1]) /\ IsFinite(ret.v.data[MaxN])
====
